---- MODULE Spec2Model ----
(***************************************************************************)
(* A model of src/bot.py: the CV dialogue (a python-telegram-bot           *)
(* ConversationHandler), its SQLite record store, and the export path with *)
(* its entitlement gate.                                                   *)
(*                                                                         *)
(* Scope of the environment:                                               *)
(*  - every user talks to the bot in one private chat, so a conversation   *)
(*    is keyed by the user; SpecChats adds /cv sent in a second chat and   *)
(*    SpecGroup puts the users in one group chat;                          *)
(*  - the store answers every call, except in SpecStorage, where a write   *)
(*    may raise;                                                           *)
(*  - the Application is built without concurrent_updates, so a handler    *)
(*    runs to completion before the next update is taken (SpecExport,      *)
(*    SpecHeader, SpecHub); SpecConc drops this and lets two export        *)
(*    handlers interleave at their await points;                           *)
(*  - Bot API calls that only send or edit a prompt succeed; sending a     *)
(*    document, rendering and PDF conversion may fail;                     *)
(*  - a handler that raises leaves the conversation state as it was.       *)
(***************************************************************************)
EXTENDS Integers, Sequences, FiniteSets, TLC

VARIABLES
    st,           \* ConversationHandler state of each user's conversation
    cv,           \* context.user_data["cv"]
    exp,          \* context.user_data["exp"]
    edu,          \* context.user_data["edu"]
    skills_pid,   \* context.user_data["skills_pid"]
    users,        \* table users
    cv_quota,     \* table cv_quota
    cv_profile,   \* table cv_profile (row i has id i)
    cv_experience,\* table cv_experience
    cv_education, \* table cv_education
    cv_skills,    \* table cv_skills
    today,        \* date.today()
    msgs,         \* per user and record: chat messages that carry that record's buttons
    expMsg,       \* per user: the message carrying the export buttons
    last,         \* the update handled last and what its handler did
    bumped,       \* history: per user and day, the bump_export calls made
    delivered,    \* history: per user, the export documents delivered
    inflight      \* SpecConc: the export_router calls that are suspended at an await

vars == <<st, cv, exp, edu, skills_pid, users, cv_quota, cv_profile, cv_experience,
          cv_education, cv_skills, today, msgs, expMsg, last, bumped, delivered,
          inflight>>

session == <<st, cv, exp, edu, skills_pid>>
store == <<users, cv_quota, cv_profile, cv_experience, cv_education, cv_skills>>
history == <<bumped, delivered>>
clock == <<today, inflight>>

-----------------------------------------------------------------------------
(* Bounds *)

NumUsers == 2
MaxProfiles == 2
MaxExp == 2
MaxEdu == 1
MaxDay == 2
MaxMsgs == 2
MaxDelivered == 2
MaxInflight == 2
MaxSkillLen == 4

Users == 1..NumUsers
Pids == 1..MaxProfiles
Days == 1..MaxDay
Slots == 1..MaxInflight

(* Program constants *)

FREE_LIMIT == 1

-----------------------------------------------------------------------------
(* Text: a string is a sequence of one-character strings; the two          *)
(* non-ASCII characters the code names are written BULLET (U+2022) and     *)
(* ARSEMI (U+061B, the Arabic semicolon).                                  *)

NULL == <<"NULL">>
EMPTY == << >>

Whitespace == {" ", "\n"}

RECURSIVE LStrip(_, _)
LStrip(t, chars) ==
    IF t = << >> THEN t
    ELSE IF Head(t) \in chars THEN LStrip(Tail(t), chars) ELSE t

RECURSIVE RStrip(_, _)
RStrip(t, chars) ==
    IF t = << >> THEN t
    ELSE IF t[Len(t)] \in chars THEN RStrip(SubSeq(t, 1, Len(t) - 1), chars) ELSE t

\* str.strip(chars)
StripChars(t, chars) == RStrip(LStrip(t, chars), chars)

\* str.strip()
Strip(t) == StripChars(t, Whitespace)

\* str.replace(old, new) for single characters
RECURSIVE Replace(_, _, _)
Replace(t, old, new) ==
    IF t = << >> THEN << >>
    ELSE <<IF Head(t) = old THEN new ELSE Head(t)>> \o Replace(Tail(t), old, new)

\* str.split(sep) for a single character: empty pieces are kept
RECURSIVE SplitOn(_, _, _, _)
SplitOn(t, sep, cur, acc) ==
    IF t = << >> THEN Append(acc, cur)
    ELSE IF Head(t) = sep THEN SplitOn(Tail(t), sep, << >>, Append(acc, cur))
    ELSE SplitOn(Tail(t), sep, Append(cur, Head(t)), acc)

RECURSIVE StripAll(_)
StripAll(l) == IF l = << >> THEN << >> ELSE <<Strip(Head(l))>> \o StripAll(Tail(l))

\* skills_list as it would be with the tokens left untrimmed
skills_list_NoTrim(skills) ==
    SelectSeq(SplitOn(Replace(skills, "ARSEMI", ","), ",", << >>, << >>),
              LAMBDA x : Strip(x) # << >>)

\* [s.strip() for s in (skills or "").replace("<ARSEMI>", ",").split(",") if s.strip()]
skills_list(skills) ==
    StripAll(SelectSeq(SplitOn(Replace(skills, "ARSEMI", ","), ",", << >>, << >>),
                       LAMBDA x : Strip(x) # << >>))

\* sep.join(l)
RECURSIVE Join(_, _)
Join(l, sep) ==
    IF l = << >> THEN << >>
    ELSE IF Len(l) = 1 THEN l[1]
    ELSE l[1] \o sep \o Join(Tail(l), sep)

\* the text of a message accepted by filters.TEXT: never empty
IsMessageText(t) == t # << >>

-----------------------------------------------------------------------------
(* json.dumps(bullets, ensure_ascii=False) and json.loads, on lists of strings *)

RECURSIVE JsonEscape(_)
JsonEscape(t) ==
    IF t = << >> THEN << >>
    ELSE LET c == Head(t)
         IN  (CASE c = "\"" -> <<"\\", "\"">>
                [] c = "\\" -> <<"\\", "\\">>
                [] c = "\n" -> <<"\\", "n">>
                [] OTHER    -> <<c>>) \o JsonEscape(Tail(t))

JsonString(t) == <<"\"">> \o JsonEscape(t) \o <<"\"">>

RECURSIVE JsonItems(_)
JsonItems(l) ==
    IF l = << >> THEN << >>
    ELSE IF Len(l) = 1 THEN JsonString(l[1])
    ELSE JsonString(l[1]) \o <<",", " ">> \o JsonItems(Tail(l))

JsonDumps(l) == <<"[">> \o JsonItems(l) \o <<"]">>

\* the decoder: s is the rest of the input, cur the string being read (NULL
\* outside a string), acc the items read so far
RECURSIVE JsonScan(_, _, _)
JsonScan(s, cur, acc) ==
    IF s = << >> THEN acc
    ELSE LET c == Head(s)
         IN  IF cur = NULL
             THEN IF c = "\"" THEN JsonScan(Tail(s), << >>, acc)
                  ELSE JsonScan(Tail(s), NULL, acc)
             ELSE IF c = "\"" THEN JsonScan(Tail(s), NULL, Append(acc, cur))
                  ELSE IF c = "\\"
                       THEN LET e == s[2]
                                d == IF e = "n" THEN "\n" ELSE e
                            IN  JsonScan(SubSeq(s, 3, Len(s)), Append(cur, d), acc)
                       ELSE JsonScan(Tail(s), Append(cur, c), acc)

JsonLoads(s) == JsonScan(s, NULL, << >>)

-----------------------------------------------------------------------------
(* class DB: every method is an operator from the tables it reads to the   *)
(* tables it leaves.                                                       *)

NoUser == [row |-> FALSE, lang |-> "ar", vip |-> 0]
NoQuota == [row |-> FALSE, daily_used |-> 0, last_reset |-> 0]

ensure_user(us, user_id, lang) ==
    IF us[user_id].row THEN us
    ELSE [us EXCEPT ![user_id] = [row |-> TRUE, lang |-> lang, vip |-> 0]]

is_vip(us, user_id) == us[user_id].row /\ us[user_id].vip # 0

set_vip(us, user_id, vip) ==
    IF us[user_id].row THEN [us EXCEPT ![user_id].vip = vip] ELSE us

\* can_export_today with the reset on a new date forgotten
can_export_today_NoReset(q, user_id, day, free_limit) ==
    IF ~q[user_id].row
    THEN [ok |-> TRUE,
          q  |-> [q EXCEPT ![user_id] =
                     [row |-> TRUE, daily_used |-> 0, last_reset |-> day]]]
    ELSE [ok |-> q[user_id].daily_used < free_limit, q |-> q]

\* can_export_today counting the attempt it answers
can_export_today_Counts(q, user_id, day, free_limit) ==
    IF ~q[user_id].row
    THEN [ok |-> TRUE,
          q  |-> [q EXCEPT ![user_id] =
                     [row |-> TRUE, daily_used |-> 0, last_reset |-> day]]]
    ELSE IF q[user_id].last_reset # day
         THEN [ok |-> 0 < free_limit,
               q  |-> [q EXCEPT ![user_id] =
                          [row |-> TRUE, daily_used |-> 0, last_reset |-> day]]]
         ELSE [ok |-> q[user_id].daily_used < free_limit,
               q  |-> [q EXCEPT ![user_id].daily_used = @ + 1]]

\* returns the answer and the table as left
can_export_today(q, user_id, day, free_limit) ==
    IF ~q[user_id].row
    THEN [ok |-> TRUE,
          q  |-> [q EXCEPT ![user_id] =
                     [row |-> TRUE, daily_used |-> 0, last_reset |-> day]]]
    ELSE IF q[user_id].last_reset # day
         THEN [ok |-> 0 < free_limit,
               q  |-> [q EXCEPT ![user_id] =
                          [row |-> TRUE, daily_used |-> 0, last_reset |-> day]]]
         ELSE [ok |-> q[user_id].daily_used < free_limit, q |-> q]

\* bump_export adding to the counter of an earlier date
bump_export_NoReset(q, user_id, day) ==
    IF ~q[user_id].row
    THEN [q EXCEPT ![user_id] = [row |-> TRUE, daily_used |-> 1, last_reset |-> day]]
    ELSE [q EXCEPT ![user_id].daily_used = @ + 1, ![user_id].last_reset = day]

bump_export(q, user_id, day) ==
    IF ~q[user_id].row
    THEN [q EXCEPT ![user_id] = [row |-> TRUE, daily_used |-> 1, last_reset |-> day]]
    ELSE IF q[user_id].last_reset # day
         THEN [q EXCEPT ![user_id] =
                  [row |-> TRUE, daily_used |-> 1, last_reset |-> day]]
         ELSE [q EXCEPT ![user_id].daily_used = @ + 1]

HeaderKeys == {"full_name", "title", "phone", "email", "city", "links", "summary"}

\* INSERT INTO cv_profile(user_id, lang, template): the other columns are NULL
new_profile(tab, user_id, lang, template) ==
    Append(tab, [user_id |-> user_id, lang |-> lang, template |-> template,
                 full_name |-> NULL, title |-> NULL, phone |-> NULL, email |-> NULL,
                 city |-> NULL, links |-> NULL, summary |-> NULL])

\* cur.lastrowid of that INSERT
lastrowid(tab) == Len(tab)

\* update_profile with the WHERE id=? clause forgotten
update_profile_NoWhere(tab, pid, fields) ==
    IF DOMAIN fields = {} THEN tab
    ELSE [i \in DOMAIN tab |->
            [k \in DOMAIN tab[i] |->
               IF k \in DOMAIN fields THEN fields[k] ELSE tab[i][k]]]

\* update_profile writing the row anew (INSERT OR REPLACE): the columns it is
\* not given become NULL
update_profile_Replace(tab, pid, fields) ==
    IF DOMAIN fields = {} THEN tab
    ELSE [i \in DOMAIN tab |->
            IF i = pid
            THEN [k \in DOMAIN tab[i] |->
                    IF k \in DOMAIN fields THEN fields[k]
                    ELSE IF k \in HeaderKeys THEN NULL ELSE tab[i][k]]
            ELSE tab[i]]

\* fields: a function from column names to values
update_profile(tab, pid, fields) ==
    IF DOMAIN fields = {} THEN tab
    ELSE [i \in DOMAIN tab |->
            IF i = pid
            THEN [k \in DOMAIN tab[i] |->
                    IF k \in DOMAIN fields THEN fields[k] ELSE tab[i][k]]
            ELSE tab[i]]

\* add_experience inserting its row twice
add_experience_Twice(tab, pid, company, role, start_date, end_date, bullets) ==
    LET row == [profile_id |-> pid, company |-> company, role |-> role,
                start_date |-> start_date, end_date |-> end_date,
                bullets |-> JsonDumps(bullets)]
    IN  Append(Append(tab, row), row)

add_experience(tab, pid, company, role, start_date, end_date, bullets) ==
    Append(tab, [profile_id |-> pid, company |-> company, role |-> role,
                 start_date |-> start_date, end_date |-> end_date,
                 bullets |-> JsonDumps(bullets)])

add_education(tab, pid, degree, major, school, year) ==
    Append(tab, [profile_id |-> pid, degree |-> degree, major |-> major,
                 school |-> school, year |-> year])

\* set_skills always inserting a row
set_skills_Append(tab, pid, skills_str) ==
    Append(tab, [profile_id |-> pid, skills |-> skills_str])

set_skills(tab, pid, skills_str) ==
    IF \E i \in DOMAIN tab : tab[i].profile_id = pid
    THEN [i \in DOMAIN tab |->
            IF tab[i].profile_id = pid THEN [tab[i] EXCEPT !.skills = skills_str]
            ELSE tab[i]]
    ELSE Append(tab, [profile_id |-> pid, skills |-> skills_str])

\* the rows of a record read newest first (ORDER BY id DESC)
RowsOf_Desc(tab, pid) ==
    LET r == SelectSeq(tab, LAMBDA x : x.profile_id = pid)
    IN  [i \in 1..Len(r) |-> r[Len(r) + 1 - i]]

\* SELECT ... WHERE profile_id=? has no ORDER BY: the tables have no index
\* on profile_id and no row is ever deleted, so SQLite scans them by rowid,
\* which is the order of insertion
RowsOf(tab, pid) == SelectSeq(tab, LAMBDA r : r.profile_id = pid)

\* found = FALSE is the None the method returns for an unknown id
fetch_full_profile(profiles, experiences, educations, skills, pid) ==
    IF pid \notin DOMAIN profiles
    THEN [found |-> FALSE, profile |-> NULL, exps |-> << >>, edus |-> << >>,
          skills |-> EMPTY]
    ELSE LET er == RowsOf(experiences, pid)
             dr == RowsOf(educations, pid)
             sr == RowsOf(skills, pid)
         IN  [found   |-> TRUE,
              profile |-> profiles[pid],
              exps    |-> [i \in DOMAIN er |->
                             [company |-> er[i].company, role |-> er[i].role,
                              start_date |-> er[i].start_date,
                              end_date |-> er[i].end_date,
                              bullets |-> IF er[i].bullets # << >>
                                          THEN JsonLoads(er[i].bullets) ELSE << >>]],
              edus    |-> [i \in DOMAIN dr |->
                             [degree |-> dr[i].degree, major |-> dr[i].major,
                              school |-> dr[i].school, year |-> dr[i].year]],
              skills  |-> IF sr # << >> THEN sr[1].skills ELSE EMPTY]

fetch(pid) == fetch_full_profile(cv_profile, cv_experience, cv_education, cv_skills, pid)

-----------------------------------------------------------------------------
(* Conversation states, the template catalog, user_data *)

HeaderOrder == <<"ASK_LANG", "ASK_TPL", "ASK_NAME", "ASK_TITLE", "ASK_PHONE",
                 "ASK_EMAIL", "ASK_CITY", "ASK_LINKS", "ASK_SUMMARY", "MENU">>

ExpOrder == <<"EXP_ROLE", "EXP_COMPANY", "EXP_START", "EXP_END", "EXP_BULLETS">>

EduOrder == <<"EDU_DEGREE", "EDU_MAJOR", "EDU_SCHOOL", "EDU_YEAR">>

\* END: no conversation is running (ConversationHandler.END, or none started yet)
States == {HeaderOrder[i] : i \in DOMAIN HeaderOrder}
            \cup {ExpOrder[i] : i \in DOMAIN ExpOrder}
            \cup {EduOrder[i] : i \in DOMAIN EduOrder}
            \cup {"SKILLS_SET", "CONFIRM_EXPORT", "END"}

Langs == {"ar", "en"}

\* TEMPLATES_INDEX, cut down to two of its five slugs
Slugs == {"ATS", "Navy"}

\* user_data["cv"] with no key set
NoCv == [lang |-> "NONE", template |-> "NONE", full_name |-> NULL, title |-> NULL,
         phone |-> NULL, email |-> NULL, city |-> NULL, links |-> NULL,
         summary |-> NULL, pid |-> 0]

NoExp == [pid |-> 0, role |-> NULL, company |-> NULL, start_date |-> NULL,
          end_date |-> NULL]

NoEdu == [pid |-> 0, degree |-> NULL, major |-> NULL, school |-> NULL, year |-> NULL]

NoExpMsg == [pid |-> 0, vip |-> FALSE]

\* a slot with no export_router call in it
Idle == [pc |-> "idle", u |-> 0, pid |-> 0]

\* dict.get(key, default)
Get(v, none, default) == IF v = none THEN default ELSE v

\* what the handler of the update handled last did
Ev(h, u) == [h |-> h, u |-> u, from |-> st[u], text |-> EMPTY, kind |-> "none",
             pid |-> 0, allowed |-> "none", ops |-> << >>, raised |-> FALSE,
             sent |-> "none", skills_list |-> << >>, layout |-> "none"]

Init ==
    /\ st = [u \in Users |-> "END"]
    /\ cv = [u \in Users |-> NoCv]
    /\ exp = [u \in Users |-> NoExp]
    /\ edu = [u \in Users |-> NoEdu]
    /\ skills_pid = [u \in Users |-> 0]
    /\ users = [u \in Users |-> NoUser]
    /\ cv_quota = [u \in Users |-> NoQuota]
    /\ cv_profile = << >>
    /\ cv_experience = << >>
    /\ cv_education = << >>
    /\ cv_skills = << >>
    /\ today = 1
    /\ msgs = [u \in Users |-> [p \in Pids |-> 0]]
    /\ expMsg = [u \in Users |-> NoExpMsg]
    /\ last = [h |-> "init", u |-> 0, from |-> "END", text |-> EMPTY, kind |-> "none",
               pid |-> 0, allowed |-> "none", ops |-> << >>, raised |-> FALSE,
               sent |-> "none", skills_list |-> << >>, layout |-> "none"]
    /\ bumped = [u \in Users |-> [d \in Days |-> 0]]
    /\ delivered = [u \in Users |-> 0]
    /\ inflight = [s \in Slots |-> Idle]

-----------------------------------------------------------------------------
(* /start, and the header sub-flow *)

start(u) ==
    /\ users' = ensure_user(users, u, "ar")
    /\ last' = Ev("start", u)
    /\ UNCHANGED <<session, cv_quota, cv_profile, cv_experience, cv_education,
                   cv_skills, clock, msgs, expMsg, history>>

\* cv_entry keeping the user_data["cv"] of an earlier dialogue
cv_entry_Keep(u) ==
    /\ st[u] = "END"
    /\ cv' = cv
    /\ st' = [st EXCEPT ![u] = "ASK_LANG"]
    /\ last' = Ev("cv_entry", u)
    /\ UNCHANGED <<exp, edu, skills_pid, store, clock, msgs, expMsg, history>>

\* entry point of cv_conv; allow_reentry is off, so only outside a conversation
cv_entry(u) ==
    /\ st[u] = "END"
    /\ cv' = [cv EXCEPT ![u] = NoCv]
    /\ st' = [st EXCEPT ![u] = "ASK_LANG"]
    /\ last' = Ev("cv_entry", u)
    /\ UNCHANGED <<exp, edu, skills_pid, store, clock, msgs, expMsg, history>>

cv_set_lang(u, lang) ==
    /\ st[u] = "ASK_LANG"
    /\ cv' = [cv EXCEPT ![u].lang = lang]
    /\ st' = [st EXCEPT ![u] = "ASK_TPL"]
    /\ last' = Ev("cv_set_lang", u)
    /\ UNCHANGED <<exp, edu, skills_pid, store, clock, msgs, expMsg, history>>

cv_set_tpl(u, tpl_slug) ==
    /\ st[u] = "ASK_TPL"
    /\ cv' = [cv EXCEPT ![u].template = tpl_slug]
    /\ st' = [st EXCEPT ![u] = "ASK_NAME"]
    /\ last' = Ev("cv_set_tpl", u)
    /\ UNCHANGED <<exp, edu, skills_pid, store, clock, msgs, expMsg, history>>

\* a button of a template selector is at hand
SelectorAtHand(u) ==
    \/ st[u] = "ASK_TPL"
    \/ \E p \in Pids : msgs[u][p] > 0

\* cv_preview and cv_preview_all leave the same state: they send the previews
\* and one more template selector, for the record the session holds
Preview(h, u) ==
    /\ st[u] \in {"ASK_TPL", "MENU"}
    /\ SelectorAtHand(u)
    /\ LET pid == cv[u].pid
           initial == pid = 0
       IN  IF initial
           THEN /\ st' = [st EXCEPT ![u] = "ASK_TPL"]
                /\ msgs' = msgs
           ELSE /\ msgs[u][pid] < MaxMsgs
                /\ st' = [st EXCEPT ![u] = "MENU"]
                /\ msgs' = [msgs EXCEPT ![u][pid] = @ + 1]
    /\ last' = Ev(h, u)
    /\ UNCHANGED <<cv, exp, edu, skills_pid, store, clock, expMsg, history>>

cv_preview(u) == Preview("cv_preview", u)

cv_preview_all(u) == Preview("cv_preview_all", u)

\* the handlers of ASK_NAME .. ASK_LINKS: store the trimmed text, go on
HeaderStep(h, u, text, state, key, next) ==
    /\ st[u] = state
    /\ IsMessageText(text)
    /\ cv' = [cv EXCEPT ![u] = [k \in DOMAIN @ |-> IF k = key THEN Strip(text) ELSE @[k]]]
    /\ st' = [st EXCEPT ![u] = next]
    /\ last' = [Ev(h, u) EXCEPT !.text = text]
    /\ UNCHANGED <<exp, edu, skills_pid, store, clock, msgs, expMsg, history>>

cv_name(u, text) == HeaderStep("cv_name", u, text, "ASK_NAME", "full_name", "ASK_TITLE")

cv_title(u, text) == HeaderStep("cv_title", u, text, "ASK_TITLE", "title", "ASK_PHONE")

\* cv_phone returning the state after the next one
cv_phone_Skip(u, text) ==
    HeaderStep("cv_phone", u, text, "ASK_PHONE", "phone", "ASK_CITY")

cv_phone(u, text) == HeaderStep("cv_phone", u, text, "ASK_PHONE", "phone", "ASK_EMAIL")

cv_email(u, text) == HeaderStep("cv_email", u, text, "ASK_EMAIL", "email", "ASK_CITY")

cv_city(u, text) == HeaderStep("cv_city", u, text, "ASK_CITY", "city", "ASK_LINKS")

cv_links(u, text) == HeaderStep("cv_links", u, text, "ASK_LINKS", "links", "ASK_SUMMARY")

\* show_menu(update, ...): a new message with the menu of record pid
show_menu_reply(m, u, pid) == [m EXCEPT ![u][pid] = @ + 1]

cv_summary(u, text) ==
    /\ st[u] = "ASK_SUMMARY"
    /\ IsMessageText(text)
    /\ Len(cv_profile) < MaxProfiles
    /\ msgs[u][Len(cv_profile) + 1] < MaxMsgs
    /\ LET c == [cv[u] EXCEPT !.summary = Strip(text)]
           lang == Get(c.lang, "NONE", "ar")
           tab1 == new_profile(cv_profile, u, lang, Get(c.template, "NONE", "ATS"))
           pid == lastrowid(tab1)
       IN  /\ users' = ensure_user(users, u, lang)
           /\ cv_profile' = update_profile(tab1, pid, [k \in HeaderKeys |-> c[k]])
           /\ cv' = [cv EXCEPT ![u] = [c EXCEPT !.pid = pid]]
           /\ msgs' = show_menu_reply(msgs, u, pid)
           /\ last' = [Ev("cv_summary", u) EXCEPT !.text = text, !.pid = pid]
    /\ st' = [st EXCEPT ![u] = "MENU"]
    /\ UNCHANGED <<exp, edu, skills_pid, cv_quota, cv_experience, cv_education,
                   cv_skills, clock, expMsg, history>>

-----------------------------------------------------------------------------
(* The hub *)

MenuActions == {"addexp", "addedu", "skills", "export", "tpl", "back"}

\* q.edit_message_text without a keyboard: the message loses its buttons
drop_buttons(m, u, pid) == [m EXCEPT ![u][pid] = @ - 1]

\* the pressed button is one of a live message of the chat and names its record
menu_router(u, action, pid) ==
    /\ st[u] = "MENU"
    /\ msgs[u][pid] > 0
    /\ action \in MenuActions
    /\ last' = [Ev("menu_router", u) EXCEPT !.kind = action, !.pid = pid,
                   !.raised = (action = "tpl" /\ ~fetch(pid).found)]
    /\ CASE action = "addexp" ->
              /\ exp' = [exp EXCEPT ![u] = [NoExp EXCEPT !.pid = pid]]
              /\ msgs' = drop_buttons(msgs, u, pid)
              /\ st' = [st EXCEPT ![u] = "EXP_ROLE"]
              /\ UNCHANGED <<cv, edu, skills_pid, expMsg>>
         [] action = "addedu" ->
              /\ edu' = [edu EXCEPT ![u] = [NoEdu EXCEPT !.pid = pid]]
              /\ msgs' = drop_buttons(msgs, u, pid)
              /\ st' = [st EXCEPT ![u] = "EDU_DEGREE"]
              /\ UNCHANGED <<cv, exp, skills_pid, expMsg>>
         [] action = "skills" ->
              /\ skills_pid' = [skills_pid EXCEPT ![u] = pid]
              /\ msgs' = drop_buttons(msgs, u, pid)
              /\ st' = [st EXCEPT ![u] = "SKILLS_SET"]
              /\ UNCHANGED <<cv, exp, edu, expMsg>>
         [] action = "export" ->
              \* show_export_menu: the message now carries the export buttons
              /\ expMsg' = [expMsg EXCEPT ![u] = [pid |-> pid, vip |-> is_vip(users, u)]]
              /\ msgs' = drop_buttons(msgs, u, pid)
              /\ st' = [st EXCEPT ![u] = "CONFIRM_EXPORT"]
              /\ UNCHANGED <<cv, exp, edu, skills_pid>>
         [] action = "tpl" ->
              IF fetch(pid).found
              THEN /\ cv' = [cv EXCEPT ![u].pid = pid]
                   /\ st' = [st EXCEPT ![u] = "MENU"]
                   /\ UNCHANGED <<exp, edu, skills_pid, msgs, expMsg>>
              ELSE UNCHANGED <<session, msgs, expMsg>>
         [] action = "back" ->
              /\ st' = [st EXCEPT ![u] = "MENU"]
              /\ UNCHANGED <<cv, exp, edu, skills_pid, msgs, expMsg>>
    /\ UNCHANGED <<store, clock, history>>

ExpStep(h, u, text, state, key, next) ==
    /\ st[u] = state
    /\ IsMessageText(text)
    /\ exp' = [exp EXCEPT ![u] = [k \in DOMAIN @ |-> IF k = key THEN Strip(text) ELSE @[k]]]
    /\ st' = [st EXCEPT ![u] = next]
    /\ last' = [Ev(h, u) EXCEPT !.text = text]
    /\ UNCHANGED <<cv, edu, skills_pid, store, clock, msgs, expMsg, history>>

exp_role(u, text) == ExpStep("exp_role", u, text, "EXP_ROLE", "role", "EXP_COMPANY")

exp_company(u, text) == ExpStep("exp_company", u, text, "EXP_COMPANY", "company", "EXP_START")

exp_start(u, text) == ExpStep("exp_start", u, text, "EXP_START", "start_date", "EXP_END")

exp_end(u, text) == ExpStep("exp_end", u, text, "EXP_END", "end_date", "EXP_BULLETS")

\* str.splitlines(), for the line break "\n"
RECURSIVE SplitScan(_, _, _)
SplitScan(t, cur, acc) ==
    IF t = << >> THEN IF cur = << >> THEN acc ELSE Append(acc, cur)
    ELSE IF Head(t) = "\n" THEN SplitScan(Tail(t), << >>, Append(acc, cur))
    ELSE SplitScan(Tail(t), Append(cur, Head(t)), acc)

SplitLines(t) == SplitScan(t, << >>, << >>)

\* the characters strip() is given in exp_bullets: the bullet and the space
BulletGlyphs == {"BULLET", " "}

RECURSIVE BulletMap(_)
BulletMap(ls) ==
    IF ls = << >> THEN << >>
    ELSE <<Strip(StripChars(Head(ls), BulletGlyphs))>> \o BulletMap(Tail(ls))

\* [l.strip("<BULLET> ").strip() for l in text.splitlines() if l.strip()]
BulletLines(text) ==
    BulletMap(SelectSeq(SplitLines(text), LAMBDA l : Strip(l) # << >>))

exp_bullets(u, text) ==
    /\ st[u] = "EXP_BULLETS"
    /\ IsMessageText(text)
    /\ Len(cv_experience) < MaxExp
    /\ LET e == exp[u]
       IN  /\ cv_experience' = add_experience(cv_experience, e.pid, e.company, e.role,
                                              e.start_date, e.end_date, BulletLines(text))
           /\ msgs' = show_menu_reply(msgs, u, e.pid)
           /\ last' = [Ev("exp_bullets", u) EXCEPT !.text = text, !.pid = e.pid]
    /\ st' = [st EXCEPT ![u] = "MENU"]
    /\ UNCHANGED <<cv, exp, edu, skills_pid, users, cv_quota, cv_profile, cv_education,
                   cv_skills, clock, expMsg, history>>

EduStep(h, u, text, state, key, next) ==
    /\ st[u] = state
    /\ IsMessageText(text)
    /\ edu' = [edu EXCEPT ![u] = [k \in DOMAIN @ |-> IF k = key THEN Strip(text) ELSE @[k]]]
    /\ st' = [st EXCEPT ![u] = next]
    /\ last' = [Ev(h, u) EXCEPT !.text = text]
    /\ UNCHANGED <<cv, exp, skills_pid, store, clock, msgs, expMsg, history>>

edu_degree(u, text) == EduStep("edu_degree", u, text, "EDU_DEGREE", "degree", "EDU_MAJOR")

edu_major(u, text) == EduStep("edu_major", u, text, "EDU_MAJOR", "major", "EDU_SCHOOL")

edu_school(u, text) == EduStep("edu_school", u, text, "EDU_SCHOOL", "school", "EDU_YEAR")

edu_year(u, text) ==
    /\ st[u] = "EDU_YEAR"
    /\ IsMessageText(text)
    /\ Len(cv_education) < MaxEdu
    /\ LET ed == [edu[u] EXCEPT !.year = Strip(text)]
       IN  /\ edu' = [edu EXCEPT ![u] = ed]
           /\ cv_education' = add_education(cv_education, ed.pid, ed.degree, ed.major,
                                            ed.school, ed.year)
           /\ msgs' = show_menu_reply(msgs, u, ed.pid)
           /\ last' = [Ev("edu_year", u) EXCEPT !.text = text, !.pid = ed.pid]
    /\ st' = [st EXCEPT ![u] = "MENU"]
    /\ UNCHANGED <<cv, exp, skills_pid, users, cv_quota, cv_profile, cv_experience,
                   cv_skills, clock, expMsg, history>>

skills_set(u, text) ==
    /\ st[u] = "SKILLS_SET"
    /\ IsMessageText(text)
    /\ LET pid == skills_pid[u]
       IN  /\ cv_skills' = set_skills(cv_skills, pid, Strip(text))
           /\ msgs' = show_menu_reply(msgs, u, pid)
           /\ last' = [Ev("skills_set", u) EXCEPT !.text = text, !.pid = pid]
    /\ st' = [st EXCEPT ![u] = "MENU"]
    /\ UNCHANGED <<cv, exp, edu, skills_pid, users, cv_quota, cv_profile, cv_experience,
                   cv_education, clock, expMsg, history>>

\* db.update_profile, db.fetch_full_profile, then show_menu(q, ...) on the same message
cv_tpl_set(u, slug, pid) ==
    /\ st[u] = "MENU"
    /\ msgs[u][pid] > 0
    /\ cv_profile' = update_profile(cv_profile, pid, [k \in {"template"} |-> slug])
    /\ last' = [Ev("cv_tpl_set", u) EXCEPT !.kind = slug, !.pid = pid,
                   !.raised = ~fetch(pid).found]
    /\ st' = [st EXCEPT ![u] = "MENU"]
    /\ UNCHANGED <<cv, exp, edu, skills_pid, users, cv_quota, cv_experience,
                   cv_education, cv_skills, clock, msgs, expMsg, history>>

-----------------------------------------------------------------------------
(* Export *)

ExportKinds == {"docx", "pdf", "cover"}

\* what the environment decides during one export:
\*   asset  the template file {slug}_{lang}.docx exists
\*   io     building and saving the document succeeds
\*   pdf    try_convert_to_pdf yields a file (ENABLE_PDF, LibreOffice found and working)
\*   send   reply_document succeeds
Envs == [asset : BOOLEAN, io : BOOLEAN, pdf : BOOLEAN, send : BOOLEAN]

\* python-docx missing while the bot runs
DocumentIsNone_NotInstalled == TRUE

\* Document is None only when "from docx import Document" failed; the line
\* before it imports docxtpl unguarded, and docxtpl imports docx itself, so
\* a process in which that import fails never gets to main()
DocumentIsNone == FALSE

\* env.asset is tpl_path.exists() for the template and the language of the
\* record; without the file the two-column layout is built with python-docx
render_docx_for_profile(pid, env) ==
    LET data == fetch(pid)
        sl == skills_list(data.skills)
    IN  IF ~data.found THEN [ok |-> FALSE, layout |-> "none", skills_list |-> << >>]
        ELSE IF env.asset
             THEN IF env.io THEN [ok |-> TRUE, layout |-> "template", skills_list |-> sl]
                  ELSE [ok |-> FALSE, layout |-> "none", skills_list |-> sl]
        ELSE IF DocumentIsNone THEN [ok |-> FALSE, layout |-> "none", skills_list |-> sl]
        ELSE IF env.io THEN [ok |-> TRUE, layout |-> "builtin", skills_list |-> sl]
        ELSE [ok |-> FALSE, layout |-> "none", skills_list |-> sl]

try_convert_to_pdf(env) == env.pdf

\* The three branches of export_router. Each gives what the handler did:
\*   allowed  the gate's answer          ops     the calls made, in order
\*   raised   the handler raised         q       cv_quota as left
\*   bumps    bump_export calls made     sent    the document delivered
\*   next     the state returned ("SAME" when it raised)
Outcome(allowed, ops, raised, q, bumps, sent, next) ==
    [allowed |-> allowed, ops |-> ops, raised |-> raised, q |-> q, bumps |-> bumps,
     sent |-> sent, next |-> next]

\* the DOCX branch rendering before it asks the gate
export_docx_RenderFirst(us, q, user_id, pid, day, env) ==
    LET vip == is_vip(us, user_id)
        gate == IF vip THEN [ok |-> TRUE, q |-> q]
                ELSE can_export_today(q, user_id, day, FREE_LIMIT)
        r == render_docx_for_profile(pid, env)
        ops0 == <<"render_docx_for_profile">>
        ops1 == ops0 \o (IF vip THEN <<"is_vip">> ELSE <<"is_vip", "can_export_today">>)
        q2 == bump_export(gate.q, user_id, day)
        ops2 == ops1 \o <<"bump_export", "reply_document">>
    IN  IF ~r.ok THEN Outcome("none", ops0, TRUE, q, 0, "none", "SAME")
        ELSE IF ~gate.ok THEN Outcome("deny", ops1, FALSE, gate.q, 0, "none", "END")
        ELSE IF ~env.send THEN Outcome("allow", ops2, TRUE, q2, 1, "none", "SAME")
        ELSE Outcome("allow", Append(ops2, "show_menu"), FALSE, q2, 1, "docx", "MENU")

\* the DOCX branch recording the usage before it renders
export_docx_BumpFirst(us, q, user_id, pid, day, env) ==
    LET vip == is_vip(us, user_id)
        gate == IF vip THEN [ok |-> TRUE, q |-> q]
                ELSE can_export_today(q, user_id, day, FREE_LIMIT)
        ops0 == IF vip THEN <<"is_vip">> ELSE <<"is_vip", "can_export_today">>
        r == render_docx_for_profile(pid, env)
        q2 == bump_export(gate.q, user_id, day)
        ops1 == ops0 \o <<"bump_export", "render_docx_for_profile">>
        ops2 == Append(ops1, "reply_document")
    IN  IF ~gate.ok THEN Outcome("deny", ops0, FALSE, gate.q, 0, "none", "END")
        ELSE IF ~r.ok THEN Outcome("allow", ops1, TRUE, q2, 1, "none", "SAME")
        ELSE IF ~env.send THEN Outcome("allow", ops2, TRUE, q2, 1, "none", "SAME")
        ELSE Outcome("allow", Append(ops2, "show_menu"), FALSE, q2, 1, "docx", "MENU")

export_docx(us, q, user_id, pid, day, env) ==
    LET vip == is_vip(us, user_id)
        gate == IF vip THEN [ok |-> TRUE, q |-> q]
                ELSE can_export_today(q, user_id, day, FREE_LIMIT)
        ops0 == IF vip THEN <<"is_vip">> ELSE <<"is_vip", "can_export_today">>
        r == render_docx_for_profile(pid, env)
        ops1 == Append(ops0, "render_docx_for_profile")
        q2 == bump_export(gate.q, user_id, day)
        ops2 == ops1 \o <<"bump_export", "reply_document">>
    IN  IF ~gate.ok THEN Outcome("deny", ops0, FALSE, gate.q, 0, "none", "END")
        ELSE IF ~r.ok THEN Outcome("allow", ops1, TRUE, gate.q, 0, "none", "SAME")
        ELSE IF ~env.send THEN Outcome("allow", ops2, TRUE, q2, 1, "none", "SAME")
        ELSE Outcome("allow", Append(ops2, "show_menu"), FALSE, q2, 1, "docx", "MENU")

\* the PDF branch trusting that show_export_menu shows its button to VIP
\* users only
export_pdf_TrustButton(us, q, user_id, pid, day, env) ==
    LET r == render_docx_for_profile(pid, env)
        ops1 == <<"render_docx_for_profile">>
        ops2 == Append(ops1, "try_convert_to_pdf")
                   \o (IF try_convert_to_pdf(env) THEN << >> ELSE <<"reply_text">>)
                   \o <<"reply_document">>
    IN  IF ~r.ok THEN Outcome("allow", ops1, TRUE, q, 0, "none", "SAME")
        ELSE IF ~env.send THEN Outcome("allow", ops2, TRUE, q, 0, "none", "SAME")
        ELSE Outcome("allow", Append(ops2, "show_menu"), FALSE, q, 0,
                     IF try_convert_to_pdf(env) THEN "pdf" ELSE "docx", "MENU")

\* the PDF branch showing the menu again after a denial
export_pdf_DenyToMenu(us, q, user_id, pid, day, env) ==
    LET vip == is_vip(us, user_id)
        r == render_docx_for_profile(pid, env)
        ops1 == <<"is_vip", "render_docx_for_profile">>
        ops2 == Append(ops1, "try_convert_to_pdf")
                   \o (IF try_convert_to_pdf(env) THEN << >> ELSE <<"reply_text">>)
                   \o <<"reply_document">>
    IN  IF ~vip THEN Outcome("deny", <<"is_vip">>, FALSE, q, 0, "none", "MENU")
        ELSE IF ~r.ok THEN Outcome("allow", ops1, TRUE, q, 0, "none", "SAME")
        ELSE IF ~env.send THEN Outcome("allow", ops2, TRUE, q, 0, "none", "SAME")
        ELSE Outcome("allow", Append(ops2, "show_menu"), FALSE, q, 0,
                     IF try_convert_to_pdf(env) THEN "pdf" ELSE "docx", "MENU")

\* the PDF branch giving up when the conversion yields no file
export_pdf_NoFallback(us, q, user_id, pid, day, env) ==
    LET vip == is_vip(us, user_id)
        r == render_docx_for_profile(pid, env)
        ops1 == <<"is_vip", "render_docx_for_profile">>
        ops2 == Append(ops1, "try_convert_to_pdf")
    IN  IF ~vip THEN Outcome("deny", <<"is_vip">>, FALSE, q, 0, "none", "END")
        ELSE IF ~r.ok THEN Outcome("allow", ops1, TRUE, q, 0, "none", "SAME")
        ELSE IF ~try_convert_to_pdf(env)
             THEN Outcome("allow", Append(ops2, "reply_text"), FALSE, q, 0, "none", "MENU")
        ELSE IF ~env.send THEN Outcome("allow", Append(ops2, "reply_document"), TRUE, q, 0,
                                       "none", "SAME")
        ELSE Outcome("allow", ops2 \o <<"reply_document", "show_menu">>, FALSE, q, 0,
                     "pdf", "MENU")

\* a conversion that yields no file is announced by reply_text, then the DOCX
\* file is sent
export_pdf(us, q, user_id, pid, day, env) ==
    LET vip == is_vip(us, user_id)
        r == render_docx_for_profile(pid, env)
        ops1 == <<"is_vip", "render_docx_for_profile">>
        ops2 == Append(ops1, "try_convert_to_pdf")
                   \o (IF try_convert_to_pdf(env) THEN << >> ELSE <<"reply_text">>)
                   \o <<"reply_document">>
    IN  IF ~vip THEN Outcome("deny", <<"is_vip">>, FALSE, q, 0, "none", "END")
        ELSE IF ~r.ok THEN Outcome("allow", ops1, TRUE, q, 0, "none", "SAME")
        ELSE IF ~env.send THEN Outcome("allow", ops2, TRUE, q, 0, "none", "SAME")
        ELSE Outcome("allow", Append(ops2, "show_menu"), FALSE, q, 0,
                     IF try_convert_to_pdf(env) THEN "pdf" ELSE "docx", "MENU")

export_cover(us, q, user_id, pid, day, env) ==
    LET vip == is_vip(us, user_id)
        data == fetch(pid)
        ops1 == <<"is_vip", "fetch_full_profile">>
        ops2 == ops1 \o <<"write_text", "reply_document">>
    IN  IF ~vip THEN Outcome("deny", <<"is_vip">>, FALSE, q, 0, "none", "END")
        ELSE IF ~data.found THEN Outcome("allow", ops1, TRUE, q, 0, "none", "SAME")
        ELSE IF ~env.io THEN Outcome("allow", Append(ops1, "write_text"), TRUE, q, 0,
                                     "none", "SAME")
        ELSE IF ~env.send THEN Outcome("allow", ops2, TRUE, q, 0, "none", "SAME")
        ELSE Outcome("allow", Append(ops2, "show_menu"), FALSE, q, 0, "cover", "MENU")

\* the buttons show_export_menu put on the message
ShownKinds(m) == IF m.vip THEN ExportKinds ELSE {"docx"}

export_router(u, kind, env) ==
    /\ st[u] = "CONFIRM_EXPORT"
    /\ expMsg[u].pid # 0
    /\ kind \in ShownKinds(expMsg[u])
    /\ delivered[u] < MaxDelivered
    /\ LET pid == expMsg[u].pid
           o == CASE kind = "docx" -> export_docx(users, cv_quota, u, pid, today, env)
                  [] kind = "pdf" -> export_pdf(users, cv_quota, u, pid, today, env)
                  [] kind = "cover" -> export_cover(users, cv_quota, u, pid, today, env)
       IN  /\ cv_quota' = o.q
           /\ bumped' = [bumped EXCEPT ![u][today] = @ + o.bumps]
           /\ delivered' = [delivered EXCEPT ![u] = IF o.sent # "none" THEN @ + 1 ELSE @]
           /\ st' = [st EXCEPT ![u] = IF o.next = "SAME" THEN @ ELSE o.next]
           \* the pressed message is edited: to the menu when the export went through
           /\ msgs' = IF o.next = "MENU" THEN show_menu_reply(msgs, u, pid) ELSE msgs
           /\ last' = [Ev("export_router", u) EXCEPT !.kind = kind, !.pid = pid,
                          !.allowed = o.allowed, !.ops = o.ops, !.raised = o.raised,
                          !.sent = o.sent,
                          !.skills_list =
                              IF \E i \in DOMAIN o.ops : o.ops[i] = "render_docx_for_profile"
                              THEN render_docx_for_profile(pid, env).skills_list
                              ELSE << >>,
                          !.layout =
                              IF \E i \in DOMAIN o.ops : o.ops[i] = "render_docx_for_profile"
                              THEN render_docx_for_profile(pid, env).layout
                              ELSE "none"]
    /\ expMsg' = [expMsg EXCEPT ![u] = NoExpMsg]
    /\ UNCHANGED <<cv, exp, edu, skills_pid, users, cv_profile, cv_experience,
                   cv_education, cv_skills, clock>>

-----------------------------------------------------------------------------
(* export_router for DOCX when updates are handled concurrently: the       *)
(* handler runs from one await to the next without interruption, and       *)
(* another call may run while it is suspended.                             *)

\* dispatch to export_router, up to await q.answer()
conc_call(s, u) ==
    /\ inflight[s] = Idle
    /\ st[u] = "CONFIRM_EXPORT"
    /\ expMsg[u].pid # 0
    /\ delivered[u] < MaxDelivered
    /\ inflight' = [inflight EXCEPT ![s] = [pc |-> "answered", u |-> u,
                                             pid |-> expMsg[u].pid]]
    /\ last' = Ev("conc_call", u)
    /\ UNCHANGED <<session, store, today, msgs, expMsg, history>>

\* the gate, up to await q.edit_message_text(...)
conc_gate(s) ==
    /\ inflight[s].pc = "answered"
    /\ LET u == inflight[s].u
           vip == is_vip(users, u)
           gate == IF vip THEN [ok |-> TRUE, q |-> cv_quota]
                   ELSE can_export_today(cv_quota, u, today, FREE_LIMIT)
       IN  /\ cv_quota' = gate.q
           /\ expMsg' = [expMsg EXCEPT ![u] = NoExpMsg]
           /\ IF gate.ok
              THEN /\ inflight' = [inflight EXCEPT ![s].pc = "gated"]
                   /\ st' = st
              ELSE /\ inflight' = [inflight EXCEPT ![s] = Idle]
                   /\ st' = [st EXCEPT ![u] = "END"]
           /\ last' = [Ev("conc_gate", u) EXCEPT
                          !.allowed = IF gate.ok THEN "allow" ELSE "deny"]
    /\ UNCHANGED <<cv, exp, edu, skills_pid, users, cv_profile, cv_experience,
                   cv_education, cv_skills, today, msgs, history>>

\* render_docx_for_profile and bump_export, up to await reply_document(...)
conc_render_bump(s, env) ==
    /\ inflight[s].pc = "gated"
    /\ LET u == inflight[s].u
           r == render_docx_for_profile(inflight[s].pid, env)
       IN  /\ IF r.ok
              THEN /\ cv_quota' = bump_export(cv_quota, u, today)
                   /\ bumped' = [bumped EXCEPT ![u][today] = @ + 1]
                   /\ inflight' = [inflight EXCEPT ![s].pc = "sending"]
              ELSE /\ inflight' = [inflight EXCEPT ![s] = Idle]
                   /\ UNCHANGED <<cv_quota, bumped>>
           /\ last' = [Ev("conc_render_bump", u) EXCEPT !.raised = ~r.ok]
    /\ UNCHANGED <<session, users, cv_profile, cv_experience, cv_education, cv_skills,
                   today, msgs, expMsg, delivered>>

\* reply_document, show_menu, return MENU
conc_finish(s, env) ==
    /\ inflight[s].pc = "sending"
    /\ LET u == inflight[s].u
           pid == inflight[s].pid
       IN  /\ IF env.send
              THEN /\ delivered' = [delivered EXCEPT ![u] = @ + 1]
                   \* a sibling call may have put the menu on the message already
                   /\ msgs' = IF st[u] = "MENU" THEN msgs
                              ELSE show_menu_reply(msgs, u, pid)
                   /\ st' = [st EXCEPT ![u] = "MENU"]
              ELSE UNCHANGED <<delivered, msgs, st>>
           /\ last' = [Ev("conc_finish", u) EXCEPT !.raised = ~env.send,
                          !.sent = IF env.send THEN "docx" ELSE "none"]
    /\ inflight' = [inflight EXCEPT ![s] = Idle]
    /\ UNCHANGED <<cv, exp, edu, skills_pid, store, today, expMsg, bumped>>

-----------------------------------------------------------------------------
(* The environment *)

\* the user whose Telegram username is OWNER_USERNAME
OwnerMatches(u) == u = 1

\* DB.set_vip: no handler calls it, the owner grants VIP out of band
grant_vip(u, vip) ==
    /\ users' = set_vip(users, u, vip)
    /\ users' # users
    /\ last' = [Ev("set_vip", u) EXCEPT !.from = "END"]
    /\ UNCHANGED <<session, cv_quota, cv_profile, cv_experience, cv_education,
                   cv_skills, clock, msgs, expMsg, history>>

\* midnight
next_day ==
    /\ today < MaxDay
    /\ today' = today + 1
    /\ last' = [Ev("next_day", 1) EXCEPT !.u = 0, !.from = "END"]
    /\ UNCHANGED <<session, store, msgs, expMsg, history, inflight>>

\* the process restarts: cv_conv is not persistent, user_data lives in memory
restart ==
    /\ \E u \in Users : st[u] # "END"
    /\ st' = [u \in Users |-> "END"]
    /\ cv' = [u \in Users |-> NoCv]
    /\ exp' = [u \in Users |-> NoExp]
    /\ edu' = [u \in Users |-> NoEdu]
    /\ skills_pid' = [u \in Users |-> 0]
    /\ last' = [Ev("restart", 1) EXCEPT !.u = 0, !.from = "END"]
    /\ UNCHANGED <<store, clock, msgs, expMsg, history>>

\* the process restarts on a fresh database file: DB_PATH lies on a disk that
\* did not survive the redeploy, DB._init creates the tables anew; the
\* messages sent earlier, with their buttons, are still in the chat
db_lost ==
    /\ cv_profile # << >>
    /\ st' = [u \in Users |-> "END"]
    /\ cv' = [u \in Users |-> NoCv]
    /\ exp' = [u \in Users |-> NoExp]
    /\ edu' = [u \in Users |-> NoEdu]
    /\ skills_pid' = [u \in Users |-> 0]
    /\ users' = [u \in Users |-> NoUser]
    /\ cv_quota' = [u \in Users |-> NoQuota]
    /\ cv_profile' = << >>
    /\ cv_experience' = << >>
    /\ cv_education' = << >>
    /\ cv_skills' = << >>
    /\ last' = [Ev("db_lost", 1) EXCEPT !.u = 0, !.from = "END"]
    /\ UNCHANGED <<clock, msgs, expMsg, history>>

\* /cv sent by the user in another chat with the bot (a group): cv_conv keeps
\* one conversation per chat and user, user_data is one dict per user, so
\* cv_entry there empties user_data["cv"] and leaves this chat's state alone
cv_entry_other_chat(u) ==
    /\ cv[u] # NoCv
    /\ cv' = [cv EXCEPT ![u] = NoCv]
    /\ last' = [Ev("cv_entry_other_chat", u) EXCEPT !.from = "END"]
    /\ UNCHANGED <<st, exp, edu, skills_pid, store, clock, msgs, expMsg, history>>

\* cv_tpl_set in a group chat: no handler is limited to private chats, the
\* conversations of the members run side by side in the group and every
\* member sees the bot's messages; u, whose own dialogue there is in MENU,
\* presses a template button of a message the bot sent to member v
cv_tpl_set_group(u, v, slug, pid) ==
    /\ st[u] = "MENU"
    /\ msgs[v][pid] > 0
    /\ cv_profile' = update_profile(cv_profile, pid, [k \in {"template"} |-> slug])
    /\ last' = [Ev("cv_tpl_set", u) EXCEPT !.kind = slug, !.pid = pid,
                   !.raised = ~fetch(pid).found]
    /\ st' = [st EXCEPT ![u] = "MENU"]
    /\ UNCHANGED <<cv, exp, edu, skills_pid, users, cv_quota, cv_experience,
                   cv_education, cv_skills, clock, msgs, expMsg, history>>

\* /cv while a conversation is running: cv_conv is built without
\* allow_reentry, so its entry point is not tried; the handlers of the states
\* take callbacks or texts that are no commands, and there are no fallbacks:
\* no handler runs
cv_unhandled(u) ==
    /\ st[u] # "END"
    /\ last' = [Ev("none", u) EXCEPT !.kind = "/cv"]
    /\ UNCHANGED <<session, store, clock, msgs, expMsg, history>>

-----------------------------------------------------------------------------
(* Dispatch: the handlers main() registers, all in one group, so the first *)
(* that accepts an update handles it and the others are not tried.         *)

\* the updates a user sends: a text that is no command, commands, and button
\* presses by the prefix of their callback data
Events == {"text", "/start", "/cv", "/other", "cv:lang", "cv:tpl", "cv:prev", "cv:prevg",
           "cv:menu", "cv:tplset", "cv:export"}

\* the handler that takes an update in a state of cv_conv, "none" when every
\* handler declines it (cv_conv has no fallbacks and no re-entry)
HandlerOf(state, ev) ==
    IF ev = "/start" THEN "start"
    ELSE IF state = "END" THEN (IF ev = "/cv" THEN "cv_entry" ELSE "none")
    ELSE IF state = "ASK_LANG" THEN (IF ev = "cv:lang" THEN "cv_set_lang" ELSE "none")
    ELSE IF state = "ASK_TPL"
         THEN CASE ev = "cv:tpl" -> "cv_set_tpl"
                [] ev = "cv:prev" -> "cv_preview"
                [] ev = "cv:prevg" -> "cv_preview_all"
                [] OTHER -> "none"
    ELSE IF state = "MENU"
         THEN CASE ev = "cv:menu" -> "menu_router"
                [] ev = "cv:prev" -> "cv_preview"
                [] ev = "cv:prevg" -> "cv_preview_all"
                [] ev = "cv:tplset" -> "cv_tpl_set"
                [] OTHER -> "none"
    ELSE IF state = "CONFIRM_EXPORT"
         THEN (IF ev = "cv:export" THEN "export_router" ELSE "none")
    ELSE \* the states whose handler is MessageHandler(filters.TEXT & ~filters.COMMAND)
         IF ev = "text" THEN "text_handler" ELSE "none"

\* an update no handler takes, with a fallback that ends the dialogue
unhandled_Cancel(u, ev) ==
    /\ HandlerOf(st[u], ev) = "none"
    /\ st' = [st EXCEPT ![u] = "END"]
    /\ cv' = [cv EXCEPT ![u] = NoCv]
    /\ last' = [Ev("none", u) EXCEPT !.kind = ev]
    /\ UNCHANGED <<exp, edu, skills_pid, store, clock, msgs, expMsg, history>>

\* an update no handler takes: the Application drops it, no code of the bot runs
unhandled(u, ev) ==
    /\ HandlerOf(st[u], ev) = "none"
    /\ last' = [Ev("none", u) EXCEPT !.kind = ev]
    /\ UNCHANGED <<session, store, clock, msgs, expMsg, history>>

-----------------------------------------------------------------------------
(* Storage errors. Every DB method opens a connection of its own, runs its *)
(* statements and commits; sqlite3 raises from execute or from commit      *)
(* (database locked, disk full), the handler has no try and raises too.    *)

\* a table after an append that raised, the rows committed by earlier calls
\* being undone with it
uncommitted_Undo(tab) == IF tab = << >> THEN tab ELSE SubSeq(tab, 1, Len(tab) - 1)

\* a table after an append that raised: the INSERT of the call is not
\* committed, the rows of earlier calls were committed by their own connections
uncommitted(tab) == tab

\* exp_bullets when db.add_experience raises
exp_bullets_error(u, text) ==
    /\ st[u] = "EXP_BULLETS"
    /\ IsMessageText(text)
    /\ cv_experience' = uncommitted(cv_experience)
    /\ last' = [Ev("exp_bullets", u) EXCEPT !.text = text, !.pid = exp[u].pid,
                   !.raised = TRUE]
    /\ UNCHANGED <<session, users, cv_quota, cv_profile, cv_education, cv_skills, clock,
                   msgs, expMsg, history>>

\* edu_year when db.add_education raises: the year is in user_data by then
edu_year_error(u, text) ==
    /\ st[u] = "EDU_YEAR"
    /\ IsMessageText(text)
    /\ edu' = [edu EXCEPT ![u].year = Strip(text)]
    /\ cv_education' = uncommitted(cv_education)
    /\ last' = [Ev("edu_year", u) EXCEPT !.text = text, !.pid = edu[u].pid,
                   !.raised = TRUE]
    /\ UNCHANGED <<st, cv, exp, skills_pid, users, cv_quota, cv_profile, cv_experience,
                   cv_skills, clock, msgs, expMsg, history>>

\* cv_summary when db.update_profile raises: db.new_profile has committed its
\* row, user_data["cv"]["pid"] is not set and no menu is shown
cv_summary_error(u, text) ==
    /\ st[u] = "ASK_SUMMARY"
    /\ IsMessageText(text)
    /\ Len(cv_profile) < MaxProfiles
    /\ LET c == [cv[u] EXCEPT !.summary = Strip(text)]
           lang == Get(c.lang, "NONE", "ar")
       IN  /\ users' = ensure_user(users, u, lang)
           /\ cv_profile' = new_profile(cv_profile, u, lang, Get(c.template, "NONE", "ATS"))
           /\ cv' = [cv EXCEPT ![u] = c]
           /\ last' = [Ev("cv_summary", u) EXCEPT !.text = text,
                          !.pid = lastrowid(cv_profile'), !.raised = TRUE]
    /\ UNCHANGED <<st, exp, edu, skills_pid, cv_quota, cv_experience, cv_education,
                   cv_skills, clock, msgs, expMsg, history>>

-----------------------------------------------------------------------------
(* The bot, one update at a time.                                          *)
(*   SpecHub     the dialogue with the capture sub-flows of the hub, the   *)
(*               template change and the previews, across restarts         *)
(*   SpecExport  the dialogue up to the hub and the export path, with the  *)
(*               owner granting VIP and the date changing; the capture     *)
(*               sub-flows of the hub, which touch neither the users nor   *)
(*               the quota table, are left out                             *)
(*   SpecHeader  the header sub-flow alone, on texts with leading,         *)
(*               trailing and inner whitespace, for two users              *)

\* the texts users send: one per kind of step
Texts == {<<" ", "a", " ">>}

\* texts for the header sub-flow
WideTexts == {<<" ", "a", "\n">>, <<"b", " ", "c">>}

BulletTexts == {<<"BULLET", " ", "x", "\n", " ", "\n", "y">>}

SkillTexts == {<<"s", ",", " ", "t">>, <<"r">>}

HeaderTextStep(u, t) ==
    \/ cv_name(u, t) \/ cv_title(u, t) \/ cv_phone(u, t) \/ cv_email(u, t)
    \/ cv_city(u, t) \/ cv_links(u, t) \/ cv_summary(u, t)

HubTextStep(u, t) ==
    \/ exp_role(u, t) \/ exp_company(u, t) \/ exp_start(u, t) \/ exp_end(u, t)
    \/ edu_degree(u, t) \/ edu_major(u, t) \/ edu_school(u, t) \/ edu_year(u, t)

NextExport ==
    \/ start(1)
    \/ cv_entry(1)
    \/ cv_set_lang(1, "en")
    \/ cv_set_tpl(1, "Navy")
    \/ \E t \in Texts : HeaderTextStep(1, t)
    \/ \E a \in {"export", "tpl", "back"}, p \in Pids : menu_router(1, a, p)
    \/ \E k \in ExportKinds, env \in Envs : export_router(1, k, env)
    \/ \E v \in {0, 1} : grant_vip(1, v)
    \/ next_day

SpecExport == Init /\ [][NextExport]_vars

NextHeader ==
    \/ \E u \in Users : cv_entry(u)
    \/ \E lang \in Langs : cv_set_lang(1, lang)
    \/ \E slug \in Slugs : cv_set_tpl(1, slug)
    \/ \E t \in WideTexts : HeaderTextStep(1, t)
    \/ cv_preview(1)
    \/ cv_preview_all(1)
    \/ cv_set_lang(2, "ar")
    \/ cv_set_tpl(2, "ATS")
    \/ \E t \in Texts : HeaderTextStep(2, t)

SpecHeader == Init /\ [][NextHeader]_vars

NextHub ==
    \/ cv_entry(1)
    \/ cv_set_lang(1, "en")
    \/ cv_set_tpl(1, "Navy")
    \/ cv_preview(1)
    \/ cv_preview_all(1)
    \/ \E t \in Texts : HeaderTextStep(1, t)
    \/ \E t \in Texts : HubTextStep(1, t)
    \/ \E t \in BulletTexts : exp_bullets(1, t)
    \/ \E t \in SkillTexts : skills_set(1, t)
    \/ \E a \in MenuActions \ {"export"}, p \in Pids : menu_router(1, a, p)
    \/ \E slug \in Slugs, p \in Pids : cv_tpl_set(1, slug, p)
    \/ restart

SpecHub == Init /\ [][NextHub]_vars

NextConc ==
    \/ cv_entry(1)
    \/ cv_set_lang(1, "en")
    \/ cv_set_tpl(1, "Navy")
    \/ \E t \in Texts : HeaderTextStep(1, t)
    \/ \E p \in Pids : menu_router(1, "export", p)
    \/ \E s \in Slots : conc_call(s, 1)
    \/ \E s \in Slots : conc_gate(s)
    \/ \E s \in Slots, env \in Envs : conc_render_bump(s, env)
    \/ \E s \in Slots, env \in Envs : conc_finish(s, env)
    \/ next_day

SpecConc == Init /\ [][NextConc]_vars

\* the dialogue up to the hub with the previews and the template selector of
\* the hub, the user also writing /cv to the bot in a second chat
NextChats ==
    \/ cv_entry(1)
    \/ \E lang \in Langs : cv_set_lang(1, lang)
    \/ \E slug \in Slugs : cv_set_tpl(1, slug)
    \/ \E t \in Texts : HeaderTextStep(1, t)
    \/ cv_preview(1)
    \/ cv_preview_all(1)
    \/ \E a \in {"tpl", "back"}, p \in Pids : menu_router(1, a, p)
    \/ \E slug \in Slugs, p \in Pids : cv_tpl_set(1, slug, p)
    \/ cv_entry_other_chat(1)
    \/ restart

SpecChats == Init /\ [][NextChats]_vars

\* the hub actions that read a record, with buttons that outlive the database
NextLost ==
    \/ cv_entry(1)
    \/ cv_set_lang(1, "en")
    \/ cv_set_tpl(1, "Navy")
    \/ \E t \in Texts : HeaderTextStep(1, t)
    \/ \E a \in {"export", "tpl", "back"}, p \in Pids : menu_router(1, a, p)
    \/ \E slug \in Slugs, p \in Pids : cv_tpl_set(1, slug, p)
    \/ \E env \in {e \in Envs : e.asset /\ e.pdf /\ e.send} : export_router(1, "docx", env)
    \/ restart
    \/ db_lost

SpecLost == Init /\ [][NextLost]_vars

\* the dialogue up to the hub, the user sending /cv at any time
NextReentry ==
    \/ cv_entry(1)
    \/ cv_unhandled(1)
    \/ cv_set_lang(1, "en")
    \/ cv_set_tpl(1, "Navy")
    \/ \E t \in Texts : HeaderTextStep(1, t)
    \/ \E a \in {"addexp", "tpl", "back"}, p \in Pids : menu_router(1, a, p)
    \/ restart

SpecReentry == Init /\ [][NextReentry]_vars

\* skills strings: every text of MaxSkillLen characters at most over a
\* letter, the space and the two separators
SkillAlphabet == {"s", " ", ",", "ARSEMI"}

SkillInputs == UNION {[1..n -> SkillAlphabet] : n \in 1..MaxSkillLen}

\* the first record of a user gets its skills and is exported as DOCX
NextNorm ==
    \/ cv_entry(1)
    \/ cv_set_lang(1, "en")
    \/ cv_set_tpl(1, "Navy")
    \/ \E t \in Texts : HeaderTextStep(1, t)
    \/ \E t \in SkillInputs : skills_set(1, t)
    \/ \E a \in {"skills", "export"} : menu_router(1, a, 1)
    \/ \E env \in {e \in Envs : e.asset /\ e.pdf /\ e.send} : export_router(1, "docx", env)

SpecNorm == Init /\ [][NextNorm]_vars

\* messages for the Bullets step: glyphs, blank lines, a line that is only a
\* glyph, characters that JSON escapes
CaptureBullets == {<<"BULLET", " ", "x", "\n", " ", "\n", "y">>, <<"z", "\n", "BULLET">>,
                   <<"q", "\"", "\\">>}

\* the capture sub-flows of the hub alone, for one record
NextCapture ==
    \/ cv_entry(1)
    \/ cv_set_lang(1, "en")
    \/ cv_set_tpl(1, "Navy")
    \/ \E t \in Texts : HeaderTextStep(1, t)
    \/ \E t \in Texts : HubTextStep(1, t)
    \/ \E t \in CaptureBullets : exp_bullets(1, t)
    \/ \E t \in SkillTexts : skills_set(1, t)
    \/ \E a \in {"addexp", "addedu", "skills", "back"}, p \in Pids : menu_router(1, a, p)

SpecCapture == Init /\ [][NextCapture]_vars

\* messages for the skills capture, with whitespace around them
SkillCaptures == {<<" ", "s", ",", " ", "t">>, <<"r", "\n">>}

\* the skills capture alone, for several records of one user: a restart ends
\* the dialogue and the menu messages of the earlier record stay in the chat
NextSkills ==
    \/ cv_entry(1)
    \/ cv_set_lang(1, "en")
    \/ cv_set_tpl(1, "Navy")
    \/ \E t \in Texts : HeaderTextStep(1, t)
    \/ \E t \in SkillCaptures : skills_set(1, t)
    \/ \E a \in {"skills", "back"}, p \in Pids : menu_router(1, a, p)
    \/ restart

SpecSkills == Init /\ [][NextSkills]_vars

\* the header and the capture sub-flows of one user, every write of which
\* may raise
NextStorage ==
    \/ cv_entry(1)
    \/ cv_set_lang(1, "en")
    \/ cv_set_tpl(1, "Navy")
    \/ \E t \in Texts : HeaderTextStep(1, t)
    \/ \E t \in Texts : cv_summary_error(1, t)
    \/ \E t \in Texts : HubTextStep(1, t)
    \/ \E t \in BulletTexts : exp_bullets(1, t)
    \/ \E t \in BulletTexts : exp_bullets_error(1, t)
    \/ \E t \in Texts : edu_year_error(1, t)
    \/ \E t \in SkillTexts : skills_set(1, t)
    \/ \E a \in {"addexp", "addedu", "skills", "back"}, p \in Pids : menu_router(1, a, p)

SpecStorage == Init /\ [][NextStorage]_vars

\* the dialogue of one user and one record, the user also sending what the
\* state at hand does not take
NextUnhandled ==
    \/ cv_entry(1)
    \/ cv_set_lang(1, "en")
    \/ cv_set_tpl(1, "Navy")
    \/ \E t \in Texts : HeaderTextStep(1, t)
    \/ \E t \in Texts : HubTextStep(1, t)
    \/ \E t \in BulletTexts : exp_bullets(1, t)
    \/ \E t \in SkillTexts : skills_set(1, t)
    \/ \E a \in MenuActions \ {"tpl"} : menu_router(1, a, 1)
    \/ \E ev \in Events : unhandled(1, ev)

SpecUnhandled == Init /\ [][NextUnhandled]_vars

\* records in either language and with either template, exported as DOCX
\* with and without the template file, by a free and by a VIP user
NextRender ==
    \/ cv_entry(1)
    \/ \E lang \in Langs : cv_set_lang(1, lang)
    \/ \E slug \in Slugs : cv_set_tpl(1, slug)
    \/ \E t \in Texts : HeaderTextStep(1, t)
    \/ \E p \in Pids : menu_router(1, "export", p)
    \/ \E env \in {e \in Envs : e.pdf /\ e.send} : export_router(1, "docx", env)
    \/ grant_vip(1, 1)

SpecRender == Init /\ [][NextRender]_vars

\* records of one user, the first with experiences and skills, their
\* template changed from the hub; a restart lets the user start a second
\* record while the messages of the first are still in the chat
NextTemplate ==
    \/ cv_entry(1)
    \/ cv_set_lang(1, "en")
    \/ cv_set_tpl(1, "Navy")
    \/ \E t \in Texts : HeaderTextStep(1, t)
    \/ \E t \in Texts : exp_role(1, t) \/ exp_company(1, t) \/ exp_start(1, t) \/ exp_end(1, t)
    \/ \E t \in BulletTexts : exp_bullets(1, t)
    \/ \E t \in {<<"r">>} : skills_set(1, t)
    \/ \E a \in {"addexp", "skills"} : menu_router(1, a, 1)
    \/ \E p \in Pids : menu_router(1, "tpl", p)
    \/ \E slug \in Slugs, p \in Pids : cv_tpl_set(1, slug, p)
    \/ restart

SpecTemplate == Init /\ [][NextTemplate]_vars

\* the users build their records in one group chat and change templates
\* with the buttons they see there
NextGroup ==
    \/ \E u \in Users : cv_entry(u)
    \/ \E u \in Users : cv_set_lang(u, "en")
    \/ \E u \in Users : cv_set_tpl(u, "Navy")
    \/ \E u \in Users, t \in Texts : HeaderTextStep(u, t)
    \/ \E u \in Users, v \in Users, p \in Pids : cv_tpl_set_group(u, v, "ATS", p)

SpecGroup == Init /\ [][NextGroup]_vars

-----------------------------------------------------------------------------
(* Properties *)

GateOps == {"is_vip", "can_export_today"}

\* rendering and conversion steps
WorkOps == {"render_docx_for_profile", "try_convert_to_pdf", "fetch_full_profile",
            "write_text"}

Has(ops, set) == \E i \in DOMAIN ops : ops[i] \in set

\* the update handled last was an export request
Exported == last.h = "export_router"

\* bump_export calls made for u so far
RECURSIVE SumTo(_, _)
SumTo(f, n) == IF n = 0 THEN 0 ELSE f[n] + SumTo(f, n - 1)

Bumps(u) == SumTo(bumped[u], MaxDay)

\* C1: in every export request the entitlement decision precedes every
\* rendering or conversion step, it is taken with the checks of the requested
\* kind, and a denied request runs no rendering or conversion step.
C1_GateBeforeWork ==
    Exported =>
        /\ \A i, j \in DOMAIN last.ops :
              (last.ops[i] \in WorkOps /\ last.ops[j] \in GateOps) => j < i
        /\ Has(last.ops, WorkOps) =>
              /\ last.allowed = "allow"
              /\ last.ops[1] = "is_vip"
              /\ (last.kind = "docx" /\ ~is_vip(users, last.u)) =>
                    last.ops[2] = "can_export_today"
        /\ last.allowed = "deny" => ~Has(last.ops, WorkOps)

C1_Witness ==
    /\ Exported /\ last.kind = "docx" /\ last.allowed = "allow"
    /\ ~is_vip(users, last.u)
    /\ Has(last.ops, WorkOps)

\* C2: no user has more usage increments recorded than export documents
\* delivered.
C2_BumpsWithinDelivered == \A u \in Users : Bumps(u) <= delivered[u]

\* C3: an export request of a VIP user never invokes bump_export.
C3_VipNeverCharged ==
    (Exported /\ is_vip(users, last.u)) => ~Has(last.ops, {"bump_export"})

BumpsTodayBefore ==
    bumped[last.u][today] - (IF Has(last.ops, {"bump_export"}) THEN 1 ELSE 0)

\* C5: a DOCX request of a user who is not VIP is allowed exactly when no usage
\* of that user was recorded on the current date: the first one of a day is
\* allowed, after a recorded one the same day's are denied, a new date allows
\* again.
C5_DailyQuota ==
    (Exported /\ last.kind = "docx" /\ ~is_vip(users, last.u)) =>
        (last.allowed = "allow" <=> BumpsTodayBefore = 0)

\* allowed again on the day after a recorded export
C5_Witness ==
    /\ Exported /\ last.kind = "docx" /\ ~is_vip(users, last.u)
    /\ last.allowed = "allow"
    /\ today = 2 /\ bumped[last.u][1] = 1 /\ BumpsTodayBefore = 0

\* C6: a step that handles a denied export request changes no table, renders
\* nothing and sends nothing.
C6_DeniedNoEffect ==
    [][(last'.h = "export_router" /\ last'.allowed = "deny") =>
          /\ store' = store
          /\ history' = history
          /\ last'.sent = "none"
          /\ ~Has(last'.ops, WorkOps \cup {"bump_export", "reply_document"})]_vars

\* a PDF request of a user who lost VIP after the export buttons were shown
C6_Witness == Exported /\ last.kind = "pdf" /\ last.allowed = "deny"

IsTrimOf(v, raw) ==
    /\ v = << >> \/ (v[1] \notin Whitespace /\ v[Len(v)] \notin Whitespace)
    /\ \E i \in 1..(Len(raw) + 1) :
          /\ i + Len(v) - 1 <= Len(raw)
          /\ \A k \in 1..Len(v) : v[k] = raw[i + k - 1]
          /\ \A k \in 1..Len(raw) :
                (k < i \/ k > i + Len(v) - 1) => raw[k] \in Whitespace

Pos(state) == CHOOSE i \in DOMAIN HeaderOrder : HeaderOrder[i] = state

\* the user_data["cv"] key filled in each header state
KeyOf(state) ==
    CASE state = "ASK_LANG" -> "lang"
      [] state = "ASK_TPL" -> "template"
      [] state = "ASK_NAME" -> "full_name"
      [] state = "ASK_TITLE" -> "title"
      [] state = "ASK_PHONE" -> "phone"
      [] state = "ASK_EMAIL" -> "email"
      [] state = "ASK_CITY" -> "city"
      [] state = "ASK_LINKS" -> "links"
      [] state = "ASK_SUMMARY" -> "summary"

BeforeHub == {HeaderOrder[i] : i \in 1..9}

TextStates == {HeaderOrder[i] : i \in 3..9}

\* C8: /cv leads to ChooseLanguage with an empty record; every input accepted
\* in a header state moves the dialogue to the next state of the order
\* ChooseLanguage .. Summary, Hub and changes only the field of the state it
\* was received in (and, at Summary, the record identifier); a text is stored
\* trimmed.
C8_HeaderOrder ==
    [][\A u \in Users :
          /\ (st[u] = "END" /\ st'[u] # "END") =>
                (st'[u] = "ASK_LANG" /\ cv'[u] = NoCv)
          /\ (st[u] \in BeforeHub /\ (st'[u] # st[u] \/ cv'[u] # cv[u])) =>
                /\ st'[u] = HeaderOrder[Pos(st[u]) + 1]
                /\ \A k \in DOMAIN NoCv \ {KeyOf(st[u]), "pid"} : cv'[u][k] = cv[u][k]
                /\ cv'[u].pid # cv[u].pid => st[u] = "ASK_SUMMARY"
                /\ st[u] \in TextStates =>
                      (last'.u = u /\ IsTrimOf(cv'[u][KeyOf(st[u])], last'.text))]_vars

C8_Witness ==
    /\ st[1] = "MENU" /\ last.h = "cv_summary" /\ last.u = 1
    /\ cv[1].full_name = <<"a">> /\ cv[1].title = <<"b", " ", "c">>
    /\ cv[1].summary = <<"a">>

OwnRows(u) == {i \in DOMAIN cv_profile : cv_profile[i].user_id = u}

\* C9: while a dialogue is in a state before the hub the session holds no
\* record identifier, and no step that starts the header sub-flow or moves
\* within it adds a cv_profile row for its user.
C9_NoIdBeforeSummary ==
    [][\A u \in Users :
          st'[u] \in BeforeHub =>
              /\ cv'[u].pid = 0
              /\ st[u] \in BeforeHub \cup {"END"} => OwnRows(u)' = OwnRows(u)]_vars

\* a second dialogue at Summary, the record of the first one in the store
C9_Witness == st[1] = "ASK_SUMMARY" /\ OwnRows(1) = {1} /\ cv[1].pid = 0

\* C10: once the header sub-flow is complete, fetch_full_profile of the new
\* identifier gives the language, template and header values collected, no
\* experience, no education and the empty skills string.
C10_FetchAfterHeader ==
    \A u \in Users :
        (st[u] = "MENU" /\ cv[u].pid # 0) =>
            LET f == fetch(cv[u].pid)
            IN  /\ f.found
                /\ f.profile.user_id = u
                /\ f.profile.lang = cv[u].lang /\ cv[u].lang \in Langs
                /\ f.profile.template = cv[u].template /\ cv[u].template \in Slugs
                /\ \A k \in HeaderKeys : f.profile[k] = cv[u][k] /\ cv[u][k] # NULL
                /\ f.exps = << >> /\ f.edus = << >> /\ f.skills = EMPTY

\* both users through, the second record made first
C10_Witness ==
    /\ st[1] = "MENU" /\ st[2] = "MENU" /\ cv[1].pid = 2 /\ cv[2].pid = 1
    /\ cv[1].lang = "en" /\ cv[1].template = "Navy"
    /\ cv[1].links = <<"b", " ", "c">>

\* C11: a preview request leaves the dialogue in the state it was handled in
\* and changes neither the in-progress record nor any table.
C11_PreviewKeepsState ==
    [][\A u \in Users :
          (last'.h \in {"cv_preview", "cv_preview_all"} /\ last'.u = u) =>
              /\ st'[u] = st[u]
              /\ cv' = cv
              /\ store' = store]_vars

CaptureStates == {ExpOrder[i] : i \in DOMAIN ExpOrder} \cup {EduOrder[i] : i \in DOMAIN EduOrder}

\* the state that follows a capture state
AfterCapture(state) ==
    CASE state = "EXP_ROLE" -> "EXP_COMPANY"
      [] state = "EXP_COMPANY" -> "EXP_START"
      [] state = "EXP_START" -> "EXP_END"
      [] state = "EXP_END" -> "EXP_BULLETS"
      [] state = "EXP_BULLETS" -> "MENU"
      [] state = "EDU_DEGREE" -> "EDU_MAJOR"
      [] state = "EDU_MAJOR" -> "EDU_SCHOOL"
      [] state = "EDU_SCHOOL" -> "EDU_YEAR"
      [] state = "EDU_YEAR" -> "MENU"

\* tab2 is tab with one row appended
OneMore(tab, tab2) ==
    /\ Len(tab2) = Len(tab) + 1
    /\ SubSeq(tab2, 1, Len(tab)) = tab

\* C12: the experience and the education sub-flow are entered from the hub at
\* their first step, every input handled in one of their states leads to the
\* next state of Role, Company, StartDate, EndDate, Bullets, Hub or of Degree,
\* Major, Institution, Year, Hub, and the tables get exactly one row, of the
\* record the sub-flow was opened for and with the values captured, in the
\* step that handles the last input and in no other.
C12_CaptureOrder ==
    [][\A u \in Users :
          /\ (st[u] \notin CaptureStates /\ st'[u] \in CaptureStates) =>
                (st[u] = "MENU" /\ st'[u] \in {"EXP_ROLE", "EDU_DEGREE"})
          /\ (st[u] \in CaptureStates /\ last'.u = u /\ last'.h # "restart") =>
                st'[u] = AfterCapture(st[u])
          /\ (last'.u = u /\ cv_experience' # cv_experience) =>
                /\ st[u] = "EXP_BULLETS" /\ st'[u] = "MENU"
                /\ OneMore(cv_experience, cv_experience')
                /\ LET r == cv_experience'[Len(cv_experience')]
                   IN  /\ r.profile_id = exp[u].pid /\ r.role = exp[u].role
                       /\ r.company = exp[u].company
                       /\ r.start_date = exp[u].start_date
                       /\ r.end_date = exp[u].end_date
          /\ (last'.u = u /\ st[u] = "EXP_BULLETS" /\ st'[u] = "MENU") =>
                cv_experience' # cv_experience
          /\ (last'.u = u /\ cv_education' # cv_education) =>
                /\ st[u] = "EDU_YEAR" /\ st'[u] = "MENU"
                /\ OneMore(cv_education, cv_education')
                /\ LET r == cv_education'[Len(cv_education')]
                   IN  /\ r.profile_id = edu[u].pid /\ r.degree = edu[u].degree
                       /\ r.major = edu[u].major /\ r.school = edu[u].school
                       /\ IsTrimOf(r.year, last'.text)
          /\ (last'.u = u /\ st[u] = "EDU_YEAR" /\ st'[u] = "MENU") =>
                cv_education' # cv_education]_vars

\* an experience, then an education entry, each through all its steps
C12_Witness ==
    /\ last.h = "edu_year" /\ st[1] = "MENU"
    /\ Len(cv_experience) = 1 /\ cv_experience[1].role = <<"a">>
    /\ Len(cv_education) = 1 /\ cv_education[1].year = <<"a">>

\* C13: every record has at most one cv_skills row; a skills capture leaves
\* the trimmed text as the skills of the record it was opened for, which is
\* what fetch_full_profile then returns, and no other step changes the skills
\* of a record.
C13_SkillsReplace ==
    [][\A p \in Pids :
          LET rows == RowsOf(cv_skills, p)'
          IN  /\ Len(rows) <= 1
              /\ IF last'.h = "skills_set" /\ last'.pid = p
                 THEN /\ Len(rows) = 1
                      /\ IsTrimOf(rows[1].skills, last'.text)
                      /\ fetch(p)'.found => fetch(p)'.skills = rows[1].skills
                 ELSE rows = RowsOf(cv_skills, p)]_vars

\* the skills of record 1 captured again after those of record 2
C13_Witness ==
    /\ last.h = "skills_set" /\ last.pid = 1
    /\ Len(cv_skills) = 2 /\ cv_skills[1].profile_id = 1 /\ cv_skills[2].profile_id = 2
    /\ fetch(1).skills = <<"r">> /\ fetch(2).skills = <<"s", ",", " ", "t">>

\* C14: a step that adds an experience to a record appends one entry, with
\* the values captured, to what fetch_full_profile returns for that record,
\* and every other step (an education addition among them) leaves the
\* experience entries of every record as they were, in their order.
C14_ExperienceAppendOnly ==
    [][\A p \in Pids :
          LET before == fetch(p).exps
              after == fetch(p)'.exps
          IN  IF last'.h = "exp_bullets" /\ last'.pid = p
              THEN LET e == exp[last'.u]
                   IN  after = Append(before,
                                      [company |-> e.company, role |-> e.role,
                                       start_date |-> e.start_date,
                                       end_date |-> e.end_date,
                                       bullets |-> BulletLines(last'.text)])
              ELSE after = before]_vars

\* two experience entries, an education entry added before the second
C14_Witness ==
    /\ last.h = "exp_bullets" /\ Len(cv_education) = 1
    /\ Len(fetch(1).exps) = 2
    /\ fetch(1).exps[1].bullets = <<<<"q", "\"", "\\">>>>
    /\ fetch(1).exps[2].bullets = <<<<"x">>, <<"y">>>>

\* C15: after a /cv message the dialogue of its sender is in ChooseLanguage
\* with an empty in-memory record, whatever state it was in.
C15_CvAlwaysResets ==
    (last.h = "cv_entry" \/ last.kind = "/cv") =>
        (st[last.u] = "ASK_LANG" /\ cv[last.u] = NoCv)

\* the PDF request handled last got a document rendered and no file from
\* try_convert_to_pdf
ConversionFailed ==
    /\ Exported /\ last.kind = "pdf"
    /\ Has(last.ops, {"try_convert_to_pdf"}) /\ Has(last.ops, {"reply_text"})

C17_NoBumpOnRenderFailure ==
    [][(last'.h = "export_router" /\ last'.kind = "docx") =>
          /\ \A j \in DOMAIN last'.ops :
                last'.ops[j] = "bump_export" =>
                    (j > 1 /\ last'.ops[j - 1] = "render_docx_for_profile")
          /\ (last'.raised /\ last'.ops[Len(last'.ops)] = "render_docx_for_profile") =>
                /\ last'.allowed = "allow"
                /\ ~Has(last'.ops, {"bump_export"})
                /\ bumped' = bumped
                /\ cv_quota'[last'.u].daily_used <= cv_quota[last'.u].daily_used]_vars

\* the rendering of a user's first export of the day raised: nothing recorded
C17_Witness ==
    /\ Exported /\ last.kind = "docx" /\ last.allowed = "allow" /\ last.raised
    /\ last.ops = <<"is_vip", "can_export_today", "render_docx_for_profile">>
    /\ cv_quota[last.u].row /\ cv_quota[last.u].daily_used = 0
    /\ cv_quota[last.u].last_reset = today

\* C18: no achievement list stored by the Bullets step holds an empty string.
C18_NoEmptyBullet ==
    \A i \in DOMAIN cv_experience :
        LET l == JsonLoads(cv_experience[i].bullets)
        IN  \A k \in DOMAIN l : l[k] # EMPTY

\* C19: the list render_docx_for_profile makes of a skills string holds
\* trimmed, non-empty tokens without a separator, and making the list again
\* from its tokens joined by either separator, with or without a space, gives
\* the same list.
C19_SkillsIdempotent ==
    (Exported /\ Has(last.ops, {"render_docx_for_profile"})) =>
        LET L == last.skills_list
        IN  /\ \A i \in DOMAIN L :
                  /\ L[i] # EMPTY /\ Strip(L[i]) = L[i]
                  /\ \A k \in DOMAIN L[i] : L[i][k] \notin {",", "ARSEMI"}
            /\ \A sep \in {<<",">>, <<",", " ">>, <<"ARSEMI">>, <<" ", "ARSEMI">>} :
                  skills_list(Join(L, sep)) = L

\* both separators and spaces in the stored string, two tokens in the list
C19_Witness ==
    /\ Exported /\ last.sent = "docx"
    /\ fetch(last.pid).skills = <<"s", ",", "ARSEMI", "s">>
    /\ last.skills_list = <<<<"s">>, <<"s">>>>

\* the update handled last named a record that is not in cv_profile: the
\* template selector, a template change or an allowed export
AbsentRecord ==
    /\ \/ last.h = "menu_router" /\ last.kind = "tpl"
       \/ last.h = "cv_tpl_set"
       \/ last.h = "export_router" /\ last.allowed = "allow"
    /\ last.pid # 0 /\ last.pid \notin DOMAIN cv_profile

\* C20: a hub or export action on a record that is not in the store raises
\* nothing and leaves the dialogue in MENU or ended.
C20_AbsentIsHandled ==
    AbsentRecord => (~last.raised /\ st[last.u] \in {"MENU", "END"})

C29_NoHeaderlessRecord ==
    \A i \in DOMAIN cv_profile : \A k \in HeaderKeys : cv_profile[i][k] # NULL

\* C22: an update that no handler accepts in the state at hand loses no
\* data: the dialogue stays in its state, and user_data (the record in
\* progress, the sub-flow records) and every table are unchanged
C22_UnhandledLosesNothing ==
    [][last'.h = "none" => (session' = session /\ store' = store)]_vars

\* a command arrived at a text step of the experience sub-flow, with a
\* record stored and an answer of the sub-flow held in user_data
C22_Witness ==
    /\ last.h = "none"
    /\ last.kind = "/cv"
    /\ last.from = "EXP_COMPANY"
    /\ st[last.u] = "EXP_COMPANY"
    /\ exp[last.u].role # NULL
    /\ cv_profile # << >>

C24_OwnerAlwaysAllowed ==
    (last.h = "export_router" /\ OwnerMatches(last.u)) => last.allowed = "allow"

\* C25: cv_tpl_set changes the template of the record its button names and
\* nothing else: the other columns of that record, every other record, the
\* experiences, the education, the skills, the users and their usage
\* counters are as before, user_data is as before and the dialogue is in MENU
C25_TemplateChangeFrame ==
    [][last'.h = "cv_tpl_set" =>
          /\ st'[last'.u] = "MENU"
          /\ <<cv, exp, edu, skills_pid>>' = <<cv, exp, edu, skills_pid>>
          /\ cv_profile' = [i \in DOMAIN cv_profile |->
                              IF i = last'.pid
                              THEN [cv_profile[i] EXCEPT !.template = last'.kind]
                              ELSE cv_profile[i]]
          /\ <<users, cv_quota, cv_experience, cv_education, cv_skills>>'
                = <<users, cv_quota, cv_experience, cv_education, cv_skills>>]_vars

\* the template of the first of two records was changed, away from the
\* template of the second; the record has an experience and skills
C25_Witness ==
    /\ last.h = "cv_tpl_set"
    /\ ~last.raised
    /\ last.pid = 1
    /\ Len(cv_profile) = 2
    /\ cv_profile[1].template = "ATS"
    /\ cv_profile[2].template = "Navy"
    /\ cv_profile[1].full_name # NULL
    /\ RowsOf(cv_experience, 1) # << >>
    /\ RowsOf(cv_skills, 1) # << >>

\* C26: for every user with a cv_quota row, daily_used is not negative and
\* is the number of bump_export calls made for that user on the date in
\* last_reset; can_export_today, called in that state, does not raise
\* daily_used, and when last_reset is not today it leaves daily_used = 0 and
\* last_reset = today
C26_QuotaCountsBumps ==
    \A u \in Users :
        cv_quota[u].row =>
            /\ cv_quota[u].daily_used >= 0
            /\ cv_quota[u].daily_used = bumped[u][cv_quota[u].last_reset]
            /\ LET after == can_export_today(cv_quota, u, today, FREE_LIMIT).q[u]
               IN  /\ after.daily_used <= cv_quota[u].daily_used
                   /\ cv_quota[u].last_reset # today =>
                          (after.daily_used = 0 /\ after.last_reset = today)

\* the gate has reset the counter of a user who exported the day before,
\* and the export it allowed was not recorded (rendering failed)
C26_Witness ==
    /\ last.h = "export_router"
    /\ Has(last.ops, {"can_export_today"})
    /\ ~Has(last.ops, {"bump_export"})
    /\ last.allowed = "allow"
    /\ cv_quota[last.u].row
    /\ cv_quota[last.u].daily_used = 0
    /\ cv_quota[last.u].last_reset = today
    /\ today > 1
    /\ bumped[last.u][today - 1] > 0

\* the handlers of the hub that act on a record
HubHandlers == {"menu_router", "cv_tpl_set", "exp_bullets", "edu_year", "skills_set",
                "export_router"}

\* C27: every hub action handled in a session acts on the record the header
\* sub-flow of that session created: the record a hub handler acts on is the
\* one user_data["cv"]["pid"] holds, whatever record the pressed button
\* names, and that identifier is the same after the action
C27_ActsOnSessionRecord ==
    [][(last'.h \in HubHandlers /\ cv[last'.u].pid # 0) =>
          (last'.pid = cv[last'.u].pid /\ cv'[last'.u].pid = cv[last'.u].pid)]_vars

\* C28: a record is modified or exported only on request of the user who
\* created it: the record a hub handler acts on for a requesting user has
\* that user as its cv_profile.user_id
C28_OnlyOwnerActs ==
    (last.h \in HubHandlers /\ last.pid \in DOMAIN cv_profile) =>
        cv_profile[last.pid].user_id = last.u

\* C30: a PDF or cover-letter request of a user who is not VIP when the
\* request is handled is denied, whatever buttons the user was shown:
\* nothing is rendered, converted or written for it and no document is sent
C30_VipOnlyKinds ==
    (last.h = "export_router" /\ last.kind \in {"pdf", "cover"}
        /\ ~is_vip(users, last.u)) =>
        /\ last.allowed = "deny"
        /\ ~Has(last.ops, WorkOps \cup {"reply_document"})
        /\ last.sent = "none"

\* a user who was VIP when the export buttons were shown and is not VIP any
\* more presses the PDF button
C30_Witness ==
    /\ last.h = "export_router"
    /\ last.kind = "pdf"
    /\ users[last.u].row
    /\ ~is_vip(users, last.u)
    /\ last.allowed = "deny"
    /\ st[last.u] = "END"

====
